---- MODULE Spec2Model ----
(***************************************************************************)
(* Model of backend/server.js: an Express server over two PostgreSQL       *)
(* tables (users, energy_readings), bcrypt password hashes and JWT bearer   *)
(* tokens.  Every request occupies a slot; an async handler is cut at its   *)
(* awaits, so a step is "the awaited result arrives and the handler runs    *)
(* to its next await or to its response".  The database executes each       *)
(* statement atomically at the moment its result is delivered.              *)
(***************************************************************************)
EXTENDS Integers, Sequences, FiniteSets, TLC

\* ------------------------------------------------------------- bounds
NumSlots == 2        \* requests in flight at once
MaxClock == 8        \* last clock value explored (clock unit: one day)
MaxTieClock == 1     \* last clock value where only the order of rows matters
MaxUserSeq == 2      \* values drawn from users_id_seq
MaxReadings == 2     \* rows inserted into energy_readings
MaxIssued == 2       \* distinct tokens issued

\* -------------------------------------------------- program constants
ExpiresIn == 7       \* jwt.sign(..., { expiresIn: '7d' }), in days
Limit == 100         \* ... ORDER BY timestamp DESC LIMIT 100
SaltRounds == 10     \* bcrypt.hash(password, 10)

JWT_SECRET == "energy-monitor-secret-key-2024"
OtherKey == "some-other-key"

Slots == 1..NumSlots
Absent == "<undefined>"          \* a field the JSON body does not carry
Emails == {"a@b.com", "c@d.com"}
Passwords == {"pw123456"}
WrongPasswords == {"hunter22"}
FirstNames == {"A", ""}
LastNames == {"B"}
Powers == {100}
Null == 0 - 1                     \* SQL NULL in a timestamp column; no time yet

\* JavaScript truthiness of a body field: undefined and "" are falsy.
Truthy(x) == x \notin {Absent, ""}

\* --------------------------------------------------------------- bcrypt
\* bcrypt.hash(s, rounds): a salted one-way hash; only compare relates it
\* to the clear text.
BcryptHash(s, rounds) == [alg |-> "bcrypt", cost |-> rounds, of |-> s]

\* bcrypt.compare(s, hash): rejects (throws) unless both arguments are
\* strings; otherwise resolves to whether hash was made from s.
BcryptCompareThrows(s, hash) == s = Absent

BcryptCompare(s, hash) == hash.of = s

\* ------------------------------------------------------------------ jwt
NoPayload == [id |-> 0, email |-> Absent, iat |-> 0, exp |-> 0]

Signature(payload, key) == [over |-> payload, key |-> key]

NoToken == [kind |-> "none", payload |-> NoPayload, sig |-> Signature(NoPayload, "")]

\* A string that is not three base64url segments.
Garbage == [kind |-> "garbage", payload |-> NoPayload, sig |-> Signature(NoPayload, "")]

\* jwt.sign(claims, secret, { expiresIn }) at clock value now.
JwtSign(id, email, key, now) ==
  LET payload == [id |-> id, email |-> email, iat |-> now, exp |-> now + ExpiresIn]
  IN  [kind |-> "jwt", payload |-> payload, sig |-> Signature(payload, key)]

JwtMalformed(tok) == tok.kind # "jwt"

JwtBadSignature(tok, key) == tok.sig # Signature(tok.payload, key)

JwtExpiredLate(tok, now) == now > tok.payload.exp

\* jsonwebtoken: TokenExpiredError when clockTimestamp >= payload.exp.
JwtExpired(tok, now) == now >= tok.payload.exp

\* jwt.verify(token, secret, cb): the err handed to cb.
JwtVerifyErr(tok, key, now) ==
  \/ JwtMalformed(tok)
  \/ JwtBadSignature(tok, key)
  \/ JwtExpired(tok, now)

\* Tokens a client can hold: those the server issued, an issued token whose
\* payload was edited after signing (expiry pushed out, signature kept), an
\* issued token's claims re-signed with a key that is not the server's, and
\* a string that is no JWT at all.
Tamper(tok) ==
  [tok EXCEPT !.payload = [tok.payload EXCEPT !.exp = tok.payload.exp + ExpiresIn]]

Resign(tok) == [tok EXCEPT !.sig = Signature(tok.payload, OtherKey)]

ClientTokens(known) ==
  known \cup {Tamper(t) : t \in known} \cup {Resign(t) : t \in known} \cup {Garbage}

\* ------------------------------------------------ Authorization header
\* A header value is the list of its space-separated words, which is what
\* authHeader.split(' ') yields.
Word(str) == [text |-> str, tok |-> NoToken]

TokenWord(tok) == [text |-> "<token>", tok |-> tok]

Undefined == [text |-> Absent, tok |-> NoToken]

NoHeader == [present |-> FALSE, words |-> << >>]

Header(words) == [present |-> TRUE, words |-> words]

Bearer(tok) == Header(<<Word("Bearer"), TokenWord(tok)>>)

Headers(known) ==
  {NoHeader, Header(<<Word("Bearer")>>)}
    \cup {Bearer(t) : t \in ClientTokens(known)}
    \cup {Header(<<Word("Basic"), TokenWord(t)>>) : t \in known}
    \cup {Header(<<TokenWord(t)>>) : t \in known}
    \cup {Header(<<Word("Bearer"), Word(""), TokenWord(t)>>) : t \in known}

\* const token = authHeader && authHeader.split(' ')[1];
ExtractToken(hdr) ==
  IF hdr.present /\ Len(hdr.words) >= 2 THEN hdr.words[2] ELSE Undefined

\* ------------------------------------------------------------ responses
NoUserObj == [id |-> 0]

NoResp ==
  [status |-> 0, success |-> FALSE, message |-> << >>, token |-> NoToken,
   user |-> NoUserObj, readings |-> << >>]

\* res.status(code).json({ success: false, message })
Failure(code, message) ==
  [NoResp EXCEPT !.status = code, !.success = FALSE, !.message = message]

\* res.json({ success: true, ... }): Express answers 200.
Success(message, user, token, list) ==
  [status |-> 200, success |-> TRUE, message |-> message, token |-> token,
   user |-> user, readings |-> list]

\* PostgreSQL's detail for a violation of users_email_key.
DuplicateDetail(email) == <<"Key (email)=(", email, ") already exists.">>

\* ----------------------------------------------------------------- rows
NoRow ==
  [id |-> 0, email |-> Absent, first_name |-> Absent, last_name |-> Absent,
   password |-> BcryptHash(Absent, 0), created_at |-> Null, last_login |-> Null]

\* The columns a statement returns or selects, out of a users row.
Columns(row, cols) == [c \in cols |-> row[c]]

RegisterColumns == {"id", "email", "first_name", "last_name", "created_at"}

ProfileColumns == {"id", "email", "first_name", "last_name", "created_at", "last_login"}

\* delete user.password
DeletePassword(row) == [c \in (DOMAIN row) \ {"password"} |-> row[c]]

\* ------------------------------------------------------------- requests
NoBody ==
  [email |-> Absent, firstName |-> Absent, lastName |-> Absent,
   password |-> Absent, power |-> 0, user_id |-> 0]

Idle ==
  [pc |-> "idle", route |-> "none", body |-> NoBody, hdr |-> NoHeader,
   user |-> NoPayload, row |-> NoRow, authAt |-> Null, err |-> "none",
   free |-> FALSE, newest |-> 0, resp |-> NoResp]

VARIABLES
  listening,      \* app.listen's callback has run
  initPc,         \* where initDB is: "idle", "users", "readings", "done", "failed"
  usersTable,     \* CREATE TABLE users has been executed
  readingsTable,  \* CREATE TABLE energy_readings has been executed
  users,          \* the rows of users
  userSeq,        \* last value of users_id_seq
  readings,       \* the rows of energy_readings, in insertion order
  clock,          \* the server's and the database's clock
  issued,         \* tokens the server has handed out
  reqs            \* the request in each slot

vars ==
  <<listening, initPc, usersTable, readingsTable, users, userSeq, readings,
    clock, issued, reqs>>

db == <<usersTable, readingsTable, users, userSeq, readings>>

Init ==
  /\ listening = FALSE
  /\ initPc = "idle"
  /\ usersTable = FALSE
  /\ readingsTable = FALSE
  /\ users = {}
  /\ userSeq = 0
  /\ readings = << >>
  /\ clock = 0
  /\ issued = {}
  /\ reqs = [s \in Slots |-> Idle]

\* No response is waiting to be read.  Every step but Release waits for
\* this: a response is read as soon as it is given.  Reading it changes the
\* slot alone and no step looks at an answered slot, so no interleaving of
\* the handlers is lost.
Delivered == \A s \in Slots : reqs[s].pc # "done"

\* The handler of slot s ends with response resp; err records what the
\* handler met ("none", "validation", "unique", "store", "noTable", "throw").
Finish(s, err, resp) ==
  reqs' = [reqs EXCEPT ![s] = [@ EXCEPT !.pc = "done", !.err = err, !.resp = resp]]

InFlight(routes) ==
  Cardinality({s \in Slots : reqs[s].route \in routes /\ reqs[s].pc # "done"})

\* ------------------------------------------------------ start-up, time
\* app.listen(PORT, () => { ...; initDB(); }): the server accepts requests
\* and initDB's first CREATE TABLE is sent, not awaited by anyone.
Listen ==
  /\ Delivered
  /\ ~listening
  /\ listening' = TRUE
  /\ initPc' = "users"
  /\ UNCHANGED <<db, clock, issued, reqs>>

\* initDB: CREATE TABLE IF NOT EXISTS users
initDBUsers ==
  /\ Delivered
  /\ initPc = "users"
  /\ usersTable' = TRUE
  /\ initPc' = "readings"
  /\ UNCHANGED <<listening, readingsTable, users, userSeq, readings, clock, issued, reqs>>

\* initDB: CREATE TABLE IF NOT EXISTS energy_readings
initDBReadings ==
  /\ Delivered
  /\ initPc = "readings"
  /\ readingsTable' = TRUE
  /\ initPc' = "done"
  /\ UNCHANGED <<listening, usersTable, users, userSeq, readings, clock, issued, reqs>>

\* initDB: a CREATE TABLE rejects; the catch logs it and initDB returns.
initDBCatch ==
  /\ Delivered
  /\ initPc \in {"users", "readings"}
  /\ initPc' = "failed"
  /\ UNCHANGED <<listening, db, clock, issued, reqs>>

Tick ==
  /\ Delivered
  /\ clock' = clock + 1
  /\ UNCHANGED <<listening, initPc, db, issued, reqs>>

\* The client has read the response; the slot serves the next request.
Release(s) ==
  /\ reqs[s].pc = "done"
  /\ reqs' = [reqs EXCEPT ![s] = Idle]
  /\ UNCHANGED <<listening, initPc, db, clock, issued>>

\* ------------------------------------------------- POST /api/register
RegisterBodies ==
  [email : Emails, firstName : FirstNames, lastName : LastNames,
   password : Passwords \cup {Absent}, power : {0}, user_id : {0}]

\* if (!email || !firstName || !lastName || !password)
MissingField(body) ==
  \/ ~Truthy(body.email)
  \/ ~Truthy(body.firstName)
  \/ ~Truthy(body.lastName)
  \/ ~Truthy(body.password)

\* The request arrives and the handler runs to its first await: a body
\* with a falsy field is answered at once, otherwise bcrypt.hash is awaited.
ArriveRegister(s, body) ==
  /\ Delivered
  /\ listening
  /\ reqs[s].pc = "idle"
  /\ userSeq + InFlight({"register"}) < MaxUserSeq
  /\ Cardinality(issued) + InFlight({"register", "login"}) < MaxIssued
  /\ reqs' = [reqs EXCEPT ![s] =
       IF MissingField(body)
       THEN [Idle EXCEPT !.pc = "done", !.route = "register", !.body = body,
                         !.err = "validation",
                         !.resp = Failure(400, <<"All fields are required">>)]
       ELSE [Idle EXCEPT !.pc = "insert", !.route = "register", !.body = body]]
  /\ UNCHANGED <<listening, initPc, db, clock, issued>>

EmailTakenNever(email) == FALSE

\* users.email is UNIQUE: the INSERT is refused when a row has the email.
EmailTaken(email) == \E u \in users : u.email = email

\* INSERT INTO users (email, first_name, last_name, password) VALUES ...:
\* id from the SERIAL sequence, created_at from CURRENT_TIMESTAMP.
NewUserRow(id, body, now) ==
  [id |-> id, email |-> body.email, first_name |-> body.firstName,
   last_name |-> body.lastName,
   password |-> BcryptHash(body.password, SaltRounds),
   created_at |-> now, last_login |-> Null]

\* The hash is ready and the INSERT's result arrives.  The catch answers
\* every error with 400 and err.detail, which only a constraint violation
\* carries.  The sequence value is drawn before the constraint is checked.
RegisterInsert(s) ==
  LET r == reqs[s]
      waiting == Delivered /\ r.pc = "insert" /\ r.route = "register"
      free == ~EmailTaken(r.body.email)
      row == NewUserRow(userSeq + 1, r.body, clock)
      token == JwtSign(row.id, r.body.email, JWT_SECRET, clock)
      end(err, resp) ==
        reqs' = [reqs EXCEPT ![s] =
          [@ EXCEPT !.pc = "done", !.err = err, !.free = free, !.resp = resp]]
  IN
  \/ /\ waiting      \* the pool rejects: connection refused, reset, timeout
     /\ end("store", Failure(400, <<"Registration failed">>))
     /\ UNCHANGED <<listening, initPc, db, clock, issued>>
  \/ /\ waiting      \* the database executes the statement
     /\ IF ~usersTable
        THEN /\ end("noTable", Failure(400, <<"Registration failed">>))
             /\ UNCHANGED <<users, userSeq, issued>>
        ELSE IF EmailTaken(r.body.email)
        THEN /\ end("unique", Failure(400, DuplicateDetail(r.body.email)))
             /\ userSeq' = userSeq + 1
             /\ UNCHANGED <<users, issued>>
        ELSE /\ users' = users \cup {row}
             /\ userSeq' = userSeq + 1
             /\ issued' = issued \cup {token}
             /\ end("none", Success(<<"Registration successful">>,
                                    Columns(row, RegisterColumns), token, << >>))
     /\ UNCHANGED <<listening, initPc, usersTable, readingsTable, readings, clock>>

\* ---------------------------------------------------- POST /api/login
LoginBodies ==
  [email : Emails, firstName : {Absent}, lastName : {Absent},
   password : Passwords \cup WrongPasswords \cup {Absent}, power : {0}, user_id : {0}]

\* The request arrives; the SELECT is sent and awaited.
ArriveLogin(s, body) ==
  /\ Delivered
  /\ listening
  /\ reqs[s].pc = "idle"
  /\ Cardinality(issued) + InFlight({"register", "login"}) < MaxIssued
  /\ reqs' = [reqs EXCEPT ![s] =
       [Idle EXCEPT !.pc = "select", !.route = "login", !.body = body]]
  /\ UNCHANGED <<listening, initPc, db, clock, issued>>

\* SELECT * FROM users WHERE email = $1 (an undefined parameter is NULL,
\* which equals no email).
UsersByEmail(email) == {u \in users : u.email = email}

\* The SELECT's result arrives; no row is answered 401; otherwise
\* bcrypt.compare runs, a mismatch is answered 401, a throw lands in the
\* catch (500), and a match sends the UPDATE and awaits it.
LoginSelect(s) ==
  LET r == reqs[s]
      waiting == Delivered /\ r.pc = "select" /\ r.route = "login"
      rows == UsersByEmail(r.body.email)
      end(err, free, resp) ==
        reqs' = [reqs EXCEPT ![s] =
          [@ EXCEPT !.pc = "done", !.err = err, !.free = free, !.resp = resp]]
  IN
  \/ /\ waiting
     /\ end("store", FALSE, Failure(500, <<"Login failed">>))
     /\ UNCHANGED <<listening, initPc, db, clock, issued>>
  \/ /\ waiting
     /\ IF ~usersTable
        THEN end("noTable", FALSE, Failure(500, <<"Login failed">>))
        ELSE IF rows = {}
        THEN end("none", TRUE, Failure(401, <<"Invalid credentials">>))
        ELSE LET user == CHOOSE u \in rows : TRUE IN
             IF BcryptCompareThrows(r.body.password, user.password)
             THEN end("throw", FALSE, Failure(500, <<"Login failed">>))
             ELSE IF ~BcryptCompare(r.body.password, user.password)
             THEN end("none", FALSE, Failure(401, <<"Invalid credentials">>))
             ELSE reqs' = [reqs EXCEPT ![s] = [@ EXCEPT !.pc = "update", !.row = user]]
     /\ UNCHANGED <<listening, initPc, db, clock, issued>>

\* UPDATE users SET last_login = CURRENT_TIMESTAMP WHERE id = $1
SetLastLogin(id, now) ==
  {IF u.id = id THEN [u EXCEPT !.last_login = now] ELSE u : u \in users}

\* The UPDATE's result arrives: a rejection lands in the catch (500);
\* otherwise the token is signed and the row, less its password, returned.
LoginUpdate(s) ==
  LET r == reqs[s]
      waiting == Delivered /\ r.pc = "update" /\ r.route = "login"
      token == JwtSign(r.row.id, r.row.email, JWT_SECRET, clock)
  IN
  \/ /\ waiting
     /\ Finish(s, "store", Failure(500, <<"Login failed">>))
     /\ UNCHANGED <<listening, initPc, db, clock, issued>>
  \/ /\ waiting
     /\ users' = SetLastLogin(r.row.id, clock)
     /\ issued' = issued \cup {token}
     /\ Finish(s, "none", Success(<<"Login successful">>, DeletePassword(r.row),
                                  token, << >>))
     /\ UNCHANGED <<listening, initPc, usersTable, readingsTable, userSeq,
                    readings, clock>>

\* ------------------------------------------------------ authenticateToken
Protected == {"profile", "postReading", "getReadings"}

\* Bodies of POST /api/readings; user_id is a field a client may add, which
\* the handler never reads: absent (0), or the id of the first or of the
\* second account.
ReadingBodies ==
  [email : {Absent}, firstName : {Absent}, lastName : {Absent},
   password : {Absent}, power : Powers, user_id : {0, 1, 2}]

\* The request arrives at a protected route; authenticateToken has the
\* token verified and is called back.
ArriveProtected(s, route, hdr, body) ==
  /\ Delivered
  /\ listening
  /\ reqs[s].pc = "idle"
  /\ route = "postReading" =>
       Len(readings) + InFlight({"postReading"}) < MaxReadings
  /\ reqs' = [reqs EXCEPT ![s] =
       [Idle EXCEPT !.pc = "gate", !.route = route, !.hdr = hdr, !.body = body]]
  /\ UNCHANGED <<listening, initPc, db, clock, issued>>

GateLetsErrThrough(hdr, now) ==
  IF ~Truthy(ExtractToken(hdr).text) THEN "missing" ELSE "next"

GateVerifiesUndefined(hdr, now) ==
  IF JwtVerifyErr(ExtractToken(hdr).tok, JWT_SECRET, now) THEN "invalid" ELSE "next"

\* What authenticateToken does with the header at clock value now:
\* "missing" (401), "invalid" (403) or "next" (req.user set, next()).
GateOutcome(hdr, now) ==
  IF ~Truthy(ExtractToken(hdr).text) THEN "missing"
  ELSE IF JwtVerifyErr(ExtractToken(hdr).tok, JWT_SECRET, now) THEN "invalid"
  ELSE "next"

authenticateToken(s) ==
  LET r == reqs[s]
      outcome == GateOutcome(r.hdr, clock)
  IN
  /\ Delivered
  /\ r.pc = "gate"
  /\ reqs' = [reqs EXCEPT ![s] =
       CASE outcome = "missing" ->
              [r EXCEPT !.pc = "done", !.authAt = clock,
                        !.resp = Failure(401, <<"Access token required">>)]
         [] outcome = "invalid" ->
              [r EXCEPT !.pc = "done", !.authAt = clock,
                        !.resp = Failure(403, <<"Invalid or expired token">>)]
         [] OTHER ->
              [r EXCEPT !.pc = "query", !.authAt = clock,
                        !.user = ExtractToken(r.hdr).tok.payload]]
  /\ UNCHANGED <<listening, initPc, db, clock, issued>>

\* ---------------------------------------------------- GET /api/profile
\* SELECT id, email, ... FROM users WHERE id = $1; rows[0] of no row is
\* undefined.
ProfileOf(id) ==
  LET rows == {u \in users : u.id = id}
  IN  IF rows = {} THEN NoUserObj
      ELSE Columns(CHOOSE u \in rows : TRUE, ProfileColumns)

ProfileQuery(s) ==
  LET r == reqs[s]
      waiting == Delivered /\ r.pc = "query" /\ r.route = "profile"
  IN
  \/ /\ waiting
     /\ Finish(s, "store", Failure(500, <<"Failed to fetch profile">>))
     /\ UNCHANGED <<listening, initPc, db, clock, issued>>
  \/ /\ waiting
     /\ IF ~usersTable
        THEN Finish(s, "noTable", Failure(500, <<"Failed to fetch profile">>))
        ELSE Finish(s, "none", Success(<< >>, ProfileOf(r.user.id), NoToken, << >>))
     /\ UNCHANGED <<listening, initPc, db, clock, issued>>

\* --------------------------------------------------- POST /api/readings
OwnerFromBody(r) == r.body.user_id

\* The $1 of the INSERT: req.user.id.
ReadingOwner(r) == r.user.id

\* INSERT INTO energy_readings (user_id, power_w, energy_wh, cost): id from
\* the SERIAL sequence, timestamp from CURRENT_TIMESTAMP.  power stands for
\* the three measured values; by records whose token the request carried.
NewReading(r, now) ==
  [id |-> Len(readings) + 1, user_id |-> ReadingOwner(r), power |-> r.body.power,
   timestamp |-> now, by |-> ExtractToken(r.hdr).tok.payload.id]

PostReadingInsert(s) ==
  LET r == reqs[s]
      waiting == Delivered /\ r.pc = "query" /\ r.route = "postReading"
      row == NewReading(r, clock)
  IN
  \/ /\ waiting
     /\ Finish(s, "store", Failure(500, <<"Failed to save reading">>))
     /\ UNCHANGED <<listening, initPc, db, clock, issued>>
  \/ /\ waiting
     /\ IF ~readingsTable
        THEN /\ Finish(s, "noTable", Failure(500, <<"Failed to save reading">>))
             /\ UNCHANGED readings
        ELSE IF \A u \in users : u.id # row.user_id   \* REFERENCES users(id)
        THEN /\ Finish(s, "foreignKey", Failure(500, <<"Failed to save reading">>))
             /\ UNCHANGED readings
        ELSE /\ readings' = Append(readings, row)
             /\ Finish(s, "none", Success(<<"Reading saved">>, NoUserObj, NoToken, << >>))
     /\ UNCHANGED <<listening, initPc, usersTable, readingsTable, users, userSeq,
                    clock, issued>>

\* ---------------------------------------------------- GET /api/readings
Min(a, b) == IF a <= b THEN a ELSE b

\* WHERE user_id = $1
RowsOf(uid) == {i \in 1..Len(readings) : readings[i].user_id = uid}

\* ORDER BY timestamp DESC: every order of the rows in which no row comes
\* before one with a later timestamp; rows with equal timestamps come in
\* an order the database chooses.
Orders(rows) ==
  LET n == Cardinality(rows)
  IN  {f \in [1..n -> rows] :
         /\ \A i, j \in 1..n : i # j => f[i] # f[j]
         /\ \A i, j \in 1..n :
              i < j => readings[f[i]].timestamp >= readings[f[j]].timestamp}

\* LIMIT 100
Page(f) == [i \in 1..Min(Len(f), Limit) |-> readings[f[i]]]

\* The row of uid saved last, 0 when there is none.
Newest(uid) ==
  IF RowsOf(uid) = {} THEN 0
  ELSE readings[CHOOSE i \in RowsOf(uid) : \A j \in RowsOf(uid) : j <= i].id

ReadingsQuery(s) ==
  LET r == reqs[s]
      waiting == Delivered /\ r.pc = "query" /\ r.route = "getReadings"
      end(err, resp) ==
        reqs' = [reqs EXCEPT ![s] =
          [@ EXCEPT !.pc = "done", !.err = err, !.newest = Newest(r.user.id),
                    !.resp = resp]]
  IN
  \/ /\ waiting
     /\ end("store", Failure(500, <<"Failed to fetch readings">>))
     /\ UNCHANGED <<listening, initPc, db, clock, issued>>
  \/ /\ waiting
     /\ IF ~readingsTable
        THEN end("noTable", Failure(500, <<"Failed to fetch readings">>))
        ELSE \E f \in Orders(RowsOf(r.user.id)) :
               end("none", Success(<< >>, NoUserObj, NoToken, Page(f)))
     /\ UNCHANGED <<listening, initPc, db, clock, issued>>

\* ------------------------------------------------------- specification
\* The steps of initDB and of the handlers.
Internal ==
  \/ Listen
  \/ initDBUsers
  \/ initDBReadings
  \/ initDBCatch
  \/ \E s \in Slots :
       \/ Release(s)
       \/ RegisterInsert(s)
       \/ LoginSelect(s)
       \/ LoginUpdate(s)
       \/ authenticateToken(s)
       \/ ProfileQuery(s)
       \/ PostReadingInsert(s)
       \/ ReadingsQuery(s)

\* Requests with every body, without a header or with an issued token as
\* bearer, over a clock short enough for rows to share a timestamp or not.
Next ==
  \/ Internal
  \/ clock < MaxTieClock /\ Tick
  \/ \E s \in Slots :
       \/ \E body \in RegisterBodies : ArriveRegister(s, body)
       \/ \E body \in LoginBodies : ArriveLogin(s, body)
       \/ \E route \in Protected, hdr \in {NoHeader} \cup {Bearer(t) : t \in issued},
             body \in ReadingBodies \cup {NoBody} :
            /\ route = "postReading" <=> body # NoBody
            /\ ArriveProtected(s, route, hdr, body)

Spec == Init /\ [][Next]_vars

\* One account, at most one reading, headers of every shape, requests
\* served one at a time, over a clock that runs past the expiry of the
\* first tokens.
Quiet == \A s \in Slots : reqs[s].pc = "idle"

AuthEmail == "a@b.com"

AuthRegisterBody ==
  [NoBody EXCEPT !.email = AuthEmail, !.firstName = "A", !.lastName = "B",
                 !.password = "pw123456"]

AuthLoginBody == [NoBody EXCEPT !.email = AuthEmail, !.password = "pw123456"]

AuthReadingBody == [NoBody EXCEPT !.power = 100]

NextAuth ==
  \/ Internal
  \/ clock < MaxClock /\ Tick
  \/ \E s \in Slots :
       \/ Quiet /\ ArriveRegister(s, AuthRegisterBody)
       \/ Quiet /\ ArriveLogin(s, AuthLoginBody)
       \/ \E route \in Protected, hdr \in Headers(issued) :
            /\ Quiet
            /\ route = "postReading" => readings = << >>
            /\ ArriveProtected(s, route, hdr,
                 IF route = "postReading" THEN AuthReadingBody ELSE NoBody)

SpecAuth == Init /\ [][NextAuth]_vars

\* Startup, registration and login alone: every register and login body,
\* concurrent requests, no protected route.
NextRegister ==
  \/ Listen
  \/ initDBUsers
  \/ initDBReadings
  \/ initDBCatch
  \/ clock < MaxTieClock /\ Tick
  \/ \E s \in Slots :
       \/ Release(s)
       \/ \E body \in RegisterBodies : ArriveRegister(s, body)
       \/ RegisterInsert(s)
       \/ \E body \in LoginBodies : ArriveLogin(s, body)
       \/ LoginSelect(s)
       \/ LoginUpdate(s)

SpecRegister == Init /\ [][NextRegister]_vars

\* Startup, registration with complete bodies, and the two readings routes
\* called with issued tokens, at one clock value.
ValidRegisterBodies == {b \in RegisterBodies : ~MissingField(b)}

NextReadings ==
  \/ Listen
  \/ initDBUsers
  \/ initDBReadings
  \/ initDBCatch
  \/ \E s \in Slots :
       \/ Release(s)
       \/ \E body \in ValidRegisterBodies : ArriveRegister(s, body)
       \/ RegisterInsert(s)
       \/ \E route \in {"postReading", "getReadings"},
             hdr \in {Bearer(t) : t \in issued},
             body \in ReadingBodies \cup {NoBody} :
            /\ route = "postReading" <=> body # NoBody
            /\ ArriveProtected(s, route, hdr, body)
       \/ authenticateToken(s)
       \/ PostReadingInsert(s)
       \/ ReadingsQuery(s)

SpecReadings == Init /\ [][NextReadings]_vars

\* ============================================================== claims
IsDone(r, route) == r.pc = "done" /\ r.route = route

\* The gate has been passed: the handler is waiting for its statement or
\* has answered.
Accepted(r) ==
  \/ r.pc = "query"
  \/ r.pc = "done" /\ r.resp.status \notin {401, 403}

\* The gate has run on the request.
Gated(r) == r.route \in Protected /\ r.authAt # Null

\* The header is "Bearer <token>".
IsBearer(hdr) ==
  /\ hdr.present
  /\ Len(hdr.words) = 2
  /\ hdr.words[1].text = "Bearer"
  /\ hdr.words[2].text = "<token>"

TokenOf(hdr) == hdr.words[2].tok

\* The gate ran on r, found a token the server issued, unexpired at that
\* moment, and set req.user to its claims.
C1_Verified(r) ==
  /\ r.authAt # Null
  /\ Truthy(ExtractToken(r.hdr).text)
  /\ ExtractToken(r.hdr).tok \in issued
  /\ r.authAt < ExtractToken(r.hdr).tok.payload.exp
  /\ r.user = ExtractToken(r.hdr).tok.payload

\* C1: on a protected route the handler runs (its statement is sent, its
\* response given) only in a request on which authenticateToken has run,
\* found a token that verifies at that moment, and set req.user to the
\* token's claims; and a row is added to energy_readings only by the step
\* of such a request.
C1_HandlerOnlyAfterGate ==
  /\ [](\A s \in Slots :
          reqs[s].route \in Protected /\ Accepted(reqs[s]) => C1_Verified(reqs[s]))
  /\ [][readings' # readings =>
          \E s \in Slots :
            /\ reqs[s].pc = "query"
            /\ reqs[s].route = "postReading"
            /\ C1_Verified(reqs[s])
            /\ reqs'[s].pc = "done"]_vars

C1_Witness ==
  \E s \in Slots :
    /\ IsDone(reqs[s], "postReading")
    /\ reqs[s].resp.status = 200
    /\ Len(readings) = 1

\* C2: on a protected route a request without an Authorization header is
\* answered 401 'Access token required', and a request whose header is
\* "Bearer <token>" with a token that is no JWT, was not signed by the
\* server as it stands, or has expired is answered 403 'Invalid or expired
\* token'.
C2_GateFailures ==
  \A s \in Slots :
    LET r == reqs[s] IN
    Gated(r) =>
      /\ ~r.hdr.present =>
           /\ r.pc = "done"
           /\ r.resp = Failure(401, <<"Access token required">>)
      /\ IsBearer(r.hdr)
           /\ (\/ TokenOf(r.hdr) \notin issued
               \/ r.authAt >= TokenOf(r.hdr).payload.exp) =>
           /\ r.pc = "done"
           /\ r.resp = Failure(403, <<"Invalid or expired token">>)

C2_Witness ==
  \E s \in Slots :
    /\ IsDone(reqs[s], "profile")
    /\ IsBearer(reqs[s].hdr)
    /\ TokenOf(reqs[s].hdr) \in issued
    /\ reqs[s].authAt >= TokenOf(reqs[s].hdr).payload.exp
    /\ reqs[s].resp.status = 403

\* C3, as claimed: a token issued at time t is accepted by every protected
\* route at every time up to t + 7 days, rejected at every later time, and
\* a token not signed with the secret is never accepted.
C3_AcceptedThroughDay7 ==
  \A s \in Slots :
    LET r == reqs[s] IN
    Gated(r) /\ IsBearer(r.hdr) =>
      /\ TokenOf(r.hdr) \in issued =>
           (Accepted(r) <=> r.authAt <= TokenOf(r.hdr).payload.iat + ExpiresIn)
      /\ TokenOf(r.hdr).sig # Signature(TokenOf(r.hdr).payload, JWT_SECRET) =>
           ~Accepted(r)

\* C3, amended: a token issued at time t is accepted by every protected
\* route at every time before t + 7 days and rejected at t + 7 days and at
\* every later time, whatever else was registered, logged in or requested
\* in between; a token not signed with the secret is never accepted.
C3_AcceptedBeforeDay7 ==
  \A s \in Slots :
    LET r == reqs[s] IN
    Gated(r) /\ IsBearer(r.hdr) =>
      /\ TokenOf(r.hdr) \in issued =>
           (Accepted(r) <=> r.authAt < TokenOf(r.hdr).payload.iat + ExpiresIn)
      /\ TokenOf(r.hdr).sig # Signature(TokenOf(r.hdr).payload, JWT_SECRET) =>
           ~Accepted(r)

C3_Witness ==
  \E s \in Slots :
    /\ IsDone(reqs[s], "getReadings")
    /\ IsBearer(reqs[s].hdr)
    /\ TokenOf(reqs[s].hdr) \in issued
    /\ reqs[s].authAt = TokenOf(reqs[s].hdr).payload.iat + ExpiresIn
    /\ reqs[s].resp.status = 403
    /\ Cardinality(issued) = 2

\* C4: however POST /api/register requests with one email interleave, the
\* users table never holds two rows with that email; a request succeeds
\* only if no row had the email when its INSERT ran, and its row is then
\* in the table; a request that found the email taken is answered 400 with
\* the duplicate-email detail and no token; every request that does not
\* succeed is answered 400; and no step changes the id, email, names,
\* password or creation time of an existing row.
C4_OneRowPerEmail ==
  /\ [](\A u, v \in users : u.email = v.email => u = v)
  /\ [](\A s \in Slots :
          LET r == reqs[s] IN
          IsDone(r, "register") =>
            /\ r.resp.status = 200 =>
                 /\ r.free
                 /\ \E u \in users : u.id = r.resp.user.id /\ u.email = r.body.email
            /\ r.resp.status # 200 => r.resp.status = 400 /\ r.resp.token = NoToken
            /\ ~MissingField(r.body) /\ ~r.free /\ r.err # "store" =>
                 r.resp = Failure(400, DuplicateDetail(r.body.email)))
  /\ [][\A u \in users :
          \E v \in users' : [v EXCEPT !.last_login = u.last_login] = u]_vars

C4_Witness ==
  \E s \in Slots :
    /\ IsDone(reqs[s], "register")
    /\ reqs[s].err = "unique"
    /\ reqs[s].resp = Failure(400, DuplicateDetail(reqs[s].body.email))
    /\ \E u \in users : u.email = reqs[s].body.email /\ u.created_at = clock
    /\ userSeq = 2

\* C5, as claimed: a POST /api/register whose four fields are non-empty and
\* whose email is in no users row, made at any point after the server has
\* started listening (and met by no failure of the database connection),
\* is answered with success, the created user, and a token whose email
\* claim is the request's email and whose id claim is the created row's id.
C5_NewEmailAlwaysSucceeds ==
  \A s \in Slots :
    LET r == reqs[s] IN
    IsDone(r, "register") /\ ~MissingField(r.body) /\ r.free /\ r.err # "store" =>
      /\ r.resp.status = 200
      /\ r.resp.success
      /\ r.resp.user.email = r.body.email
      /\ r.resp.token.payload.email = r.body.email
      /\ r.resp.token.payload.id = r.resp.user.id
      /\ \E u \in users : u.id = r.resp.user.id /\ u.email = r.body.email

\* What POST /api/login answers for an email that has no row.
UnknownEmailAnswer == Failure(401, <<"Invalid credentials">>)

\* C6, as claimed: a POST /api/login whose email has a row with a password
\* the body's password does not match (the password field may be absent)
\* is answered exactly as one whose email has no row.
C6_SameAnswer ==
  \A s \in Slots :
    LET r == reqs[s] IN
    /\ IsDone(r, "login")
    /\ r.err \notin {"store", "noTable"}
    /\ \A u \in users :
         u.email = r.body.email => u.password # BcryptHash(r.body.password, SaltRounds)
    => r.resp = UnknownEmailAnswer

\* C7, as claimed: a POST /api/login whose email has a row and whose
\* password matches the stored hash is answered with success, a token and
\* a user object without the password field, whether or not the UPDATE of
\* last_login succeeds.
C7_LoginDespiteUpdate ==
  \A s \in Slots :
    LET r == reqs[s] IN
    IsDone(r, "login") /\ r.row # NoRow =>
      /\ r.resp.status = 200
      /\ r.resp.success
      /\ r.resp.token # NoToken
      /\ r.resp.user.id = r.row.id
      /\ "password" \notin DOMAIN r.resp.user

\* C8, as claimed: a GET /api/readings of user u answered with success
\* lists u's rows latest timestamp first, at most 100 of them, all of them
\* when there are no more than 100, and its first element is the reading
\* of u saved last before the query, also when two readings of u carry the
\* same timestamp.
C8_NewestFirst ==
  \A s \in Slots :
    LET r == reqs[s]
        list == r.resp.readings
    IN
    IsDone(r, "getReadings") /\ r.resp.status = 200 =>
      /\ Len(list) <= Limit
      /\ \A i, j \in 1..Len(list) : i < j => list[i].timestamp >= list[j].timestamp
      /\ r.newest # 0 => Len(list) >= 1 /\ list[1].id = r.newest

\* C9, as claimed: on every endpoint a database error other than the
\* violation of the email uniqueness is answered 500 with the failure
\* envelope, and 400 is answered only for a missing field or a duplicate
\* email.
C9_StoreFailureIs500 ==
  \A s \in Slots :
    LET r == reqs[s] IN
    r.pc = "done" =>
      /\ r.err \in {"store", "noTable", "foreignKey"} =>
           r.resp.status = 500 /\ ~r.resp.success /\ r.resp.message # << >>
      /\ r.resp.status = 400 => r.err \in {"validation", "unique"}

\* C10: every row of energy_readings carries as user_id the id claim of the
\* token its request presented, whatever the body said, and that id is the
\* id of a users row; a GET /api/readings answered with success lists only
\* rows whose user_id is the id claim of its token; and no step changes or
\* removes a row of energy_readings.
C10_Isolation ==
  /\ [](\A i \in 1..Len(readings) :
          /\ readings[i].user_id = readings[i].by
          /\ \E u \in users : u.id = readings[i].user_id)
  /\ [](\A s \in Slots :
          LET r == reqs[s] IN
          IsDone(r, "getReadings") /\ r.resp.status = 200 =>
            /\ IsBearer(r.hdr) /\ TokenOf(r.hdr) \in issued
            /\ \A k \in 1..Len(r.resp.readings) :
                 r.resp.readings[k].user_id = TokenOf(r.hdr).payload.id)
  /\ [][/\ Len(readings') >= Len(readings)
        /\ \A i \in 1..Len(readings) : readings'[i] = readings[i]]_vars

C10_Witness ==
  \E s \in Slots :
    /\ IsDone(reqs[s], "getReadings")
    /\ reqs[s].resp.status = 200
    /\ Len(reqs[s].resp.readings) = 1
    /\ Len(readings) = 2
    /\ readings[1].user_id # readings[2].user_id

====
